---------------------------- MODULE Spec2Model ----------------------------
(* A model of kml2msfs.py, the KML -> MSFS2020 .pln converter.            *)
(*                                                                        *)
(* Strings are sequences of one-character strings, so that strip, upper,  *)
(* slicing, the title pattern and the number formats are computed         *)
(* character by character as Python computes them.  Floating-point values *)
(* are exact fixed-point rationals: a coordinate is an integer number of  *)
(* 1/DegScale degrees, an altitude an integer number of 1/AltScale        *)
(* metres, and the arithmetic on them is exact: the rounding error of     *)
(* binary floating point (2.3 - 2 giving 0.2999999999999998) is not       *)
(* modelled.                                                              *)
EXTENDS Integers, Sequences, FiniteSets, TLC

VARIABLES
    pc,         \* where the run (or the function under study) stands
    raw_input,  \* main: the line typed at the prompt
    kml_path,   \* main: the path after trimming
    disk,       \* the paths that are files on disk
    doc,        \* the content of the input file
    out_file,   \* the content written to the output path, NoPln if none
    title,      \* parse_kml's result, build_pln_xml's argument
    waypoints,  \* parse_kml's result, build_pln_xml's argument
    pln_root,        \* build_pln_xml's result
    err,        \* the exception that ended the run, "" if none
    value, is_lat, dms_out,     \* dec_to_dms: arguments and result
    alt_m, alt_out              \* alt_m_to_ft_str: argument and result

vars == <<pc, raw_input, kml_path, disk, doc, out_file, title, waypoints, pln_root,
          err, value, is_lat, dms_out, alt_m, alt_out>>

main_vars == <<raw_input, kml_path, disk, doc, out_file, title, waypoints, pln_root, err>>
dms_vars == <<value, is_lat, dms_out>>
alt_vars == <<alt_m, alt_out>>

-----------------------------------------------------------------------------
(* Bounds of the model.                                                   *)

\* Coordinates are integers in units of 1/DegScale degree.
DegScale == 1000000
\* Altitudes are integers in units of 1/AltScale metre.
AltScale == 10
\* dec_to_dms is explored for whole degrees 0..MaxDeg (and the range ends).
MaxDeg == 2
\* ... and for fractions within FracSpan units of a whole degree.
FracSpan == 6
\* alt_m_to_ft_str is explored for altitudes of -MaxAlt..MaxAlt units.
MaxAlt == 60
\* Documents hold at most MaxPlacemarks placemarks.
MaxPlacemarks == 3
\* build_pln_xml alone is explored for lists of at most MaxWpts waypoints.
MaxWpts == 3

\* Program constant 3.28084 (feet per metre) as FtNum / FtDen.
FtNum == 328084
FtDen == 100000

-----------------------------------------------------------------------------
(* Characters and Python's str methods.                                   *)

UpperSeq == <<"A","B","C","D","E","F","G","H","I","J","K","L","M",
              "N","O","P","Q","R","S","T","U","V","W","X","Y","Z">>
LowerSeq == <<"a","b","c","d","e","f","g","h","i","j","k","l","m",
              "n","o","p","q","r","s","t","u","v","w","x","y","z">>
DigitSeq == <<"0","1","2","3","4","5","6","7","8","9">>

Range(s) == { s[i] : i \in DOMAIN s }

\* str.isalpha on one character
IsAlphaChar(c) == c \in Range(UpperSeq) \cup Range(LowerSeq)
IsDigitChar(c) == c \in Range(DigitSeq)
\* the regular expression class \w
IsWordChar(c) == IsAlphaChar(c) \/ IsDigitChar(c) \/ c = "_"
\* the regular expression class \s, and what str.strip() removes
IsSpaceChar(c) == c \in {" ", "\t", "\n", "\r"}

\* str.upper on one character
UpperChar(c) ==
    IF c \in Range(LowerSeq)
    THEN UpperSeq[CHOOSE i \in DOMAIN LowerSeq : LowerSeq[i] = c]
    ELSE c

\* str.upper
Upper(s) == [i \in DOMAIN s |-> UpperChar(s[i])]

\* str.isalpha: every character alphabetic and at least one character
IsAlpha(s) == Len(s) > 0 /\ \A i \in DOMAIN s : IsAlphaChar(s[i])

RECURSIVE LStrip(_, _)
LStrip(s, chars) ==
    IF s # <<>> /\ Head(s) \in chars THEN LStrip(Tail(s), chars) ELSE s

RECURSIVE RStrip(_, _)
RStrip(s, chars) ==
    IF s # <<>> /\ s[Len(s)] \in chars
    THEN RStrip(SubSeq(s, 1, Len(s) - 1), chars)
    ELSE s

\* str.strip(chars)
StripChars(s, chars) == RStrip(LStrip(s, chars), chars)

\* str.strip()
Strip(s) == StripChars(s, {" ", "\t", "\n", "\r"})

\* s[:n]
Prefix(s, n) == SubSeq(s, 1, IF Len(s) < n THEN Len(s) ELSE n)

-----------------------------------------------------------------------------
(* Number formatting.                                                     *)

Abs(n) == IF n < 0 THEN -n ELSE n

\* the decimal digits of a natural number, as format(n, "d") writes them
RECURSIVE DigitsOf(_)
DigitsOf(n) ==
    IF n < 10 THEN <<DigitSeq[n + 1]>>
    ELSE Append(DigitsOf(n \div 10), DigitSeq[(n % 10) + 1])

\* zero padding on the left up to width w
RECURSIVE ZeroPad(_, _)
ZeroPad(s, w) == IF Len(s) >= w THEN s ELSE ZeroPad(<<"0">> \o s, w)

\* n / d rounded to the nearest integer, ties to the even one (d > 0):
\* Python's round() and the rounding of the "f" format
RoundHalfEven(n, d) ==
    LET q == n \div d
        r == n - q * d
    IN  IF 2 * r < d THEN q
        ELSE IF 2 * r > d THEN q + 1
        ELSE IF q % 2 = 0 THEN q ELSE q + 1

\* format(ft, "06d"): the sign counts in the width
Format06d(ft) ==
    IF ft < 0 THEN <<"-">> \o ZeroPad(DigitsOf(-ft), 5)
    ELSE ZeroPad(DigitsOf(ft), 6)

\* format(s, "05.2f") of a non-negative s given as num / den: s rounded to
\* hundredths, two decimals, zero-padded on the left to 5 characters
\* (the whole part is split off before scaling, to keep the products small)
Format05_2f(num, den) ==
    LET ip == num \div den
        h == ip * 100 + RoundHalfEven((num - ip * den) * 100, den)
    IN  ZeroPad(DigitsOf(h \div 100) \o <<".">> \o ZeroPad(DigitsOf(h % 100), 2), 5)

-----------------------------------------------------------------------------
(* dec_to_dms and alt_m_to_ft_str.                                        *)

\* the degree sign U+00B0
DegreeSign == "deg"

\* Hemisphere with the comparison made strict: zero falls in the S / W half
HemisphereStrict(v, lat) ==
    IF lat THEN (IF v > 0 THEN "N" ELSE "S")
           ELSE (IF v > 0 THEN "E" ELSE "W")

\* the hemisphere letter of dec_to_dms
Hemisphere(v, lat) ==
    IF lat THEN (IF v >= 0 THEN "N" ELSE "S")
           ELSE (IF v >= 0 THEN "E" ELSE "W")

\* dec_to_dms(value, is_lat), value in units of 1/DegScale degree
dec_to_dms(v, lat) ==
    LET hem == Hemisphere(v, lat)
        a == Abs(v)
        d == a \div DegScale
        \* m_full = (value - d) * 60, in units of 1/DegScale minute
        m_full == (a - d * DegScale) * 60
        m == m_full \div DegScale
        \* s = (m_full - m) * 60, in units of 1/DegScale second
        s == (m_full - m * DegScale) * 60
    IN  <<hem>> \o DigitsOf(d) \o <<DegreeSign, " ">> \o DigitsOf(m)
        \o <<"'", " ">> \o Format05_2f(s, DegScale) \o <<"\"">>

\* AltFeet without round(): int() alone truncates towards zero
AltFeetTrunc(a) ==
    LET q == Abs(a * FtNum) \div (FtDen * AltScale)
    IN  IF a < 0 THEN -q ELSE q

\* ft = int(round(alt_m * 3.28084)), alt_m in units of 1/AltScale metre
AltFeet(a) == RoundHalfEven(a * FtNum, FtDen * AltScale)

\* alt_m_to_ft_str(alt_m)
alt_m_to_ft_str(a) == <<"+">> \o Format06d(AltFeet(a)) \o <<".", "0", "0">>

-----------------------------------------------------------------------------
(* Paths.                                                                 *)

\* the index of the last c in s, 0 if there is none
LastIndexOf(s, c) ==
    IF c \in Range(s)
    THEN CHOOSE i \in 1 .. Len(s) : s[i] = c /\ \A j \in (i + 1) .. Len(s) : s[j] # c
    ELSE 0

\* os.path.basename
Basename(p) == SubSeq(p, LastIndexOf(p, "/") + 1, Len(p))

\* os.path.splitext(p)[0]: the extension starts at the last dot of the base
\* name, unless only dots precede it there
SplitextRoot(p) ==
    LET sep == LastIndexOf(p, "/")
        dot == LastIndexOf(p, ".")
    IN  IF dot > sep /\ \E k \in (sep + 1) .. (dot - 1) : p[k] # "."
        THEN SubSeq(p, 1, dot - 1)
        ELSE p

OutSuffix == <<"_","M","S","F","S","2","0","2","0",".","p","l","n">>

\* main: out_path
OutPath(p) == SplitextRoot(p) \o OutSuffix

\* main: input(...).strip().strip('"').strip("'")
TrimInput(raw) == StripChars(StripChars(Strip(raw), {"\""}), {"'"})

-----------------------------------------------------------------------------
(* parse_kml.                                                             *)

\* no value at all, find() returning None, and an element whose text is None
NoValue == <<"<none>">>
NoElem == <<"<no element>">>
NoText == <<"<no text>">>

\* a file that is not a KML document
NoDoc == [wellformed |-> FALSE, docName |-> NoElem, placemarks |-> <<>>]

\* no document tree
NoPln == [built |-> FALSE]

\* TitleOf with the extension taken off the fallback
TitleOfNoExtension(path, d) ==
    IF d.docName # NoElem THEN Strip(d.docName) ELSE Basename(SplitextRoot(path))

\* the title of parse_kml; the document-level name is known to have text
TitleOf(path, d) ==
    IF d.docName # NoElem THEN Strip(d.docName) ELSE Basename(path)

\* one round of the placemark loop on a placemark with a Point: the waypoint
\* appended, or the exception raised.  A coordinate text is the sequence of
\* its comma-separated fields, each [num, v]: whether float() accepts it and
\* the number it gives.
ReadPoint(pm) ==
    IF pm.coordinates = NoElem \/ pm.coordinates = NoText
    THEN [err |-> "AttributeError", wpt |-> NoValue]
    ELSE LET f == Prefix(pm.coordinates, 3)
         IN  IF \E i \in DOMAIN f : ~f[i].num THEN [err |-> "ValueError", wpt |-> NoValue]
             ELSE IF Len(f) < 3 THEN [err |-> "ValueError", wpt |-> NoValue]
             ELSE IF pm.name = NoElem \/ pm.name = NoText
                  THEN [err |-> "AttributeError", wpt |-> NoValue]
             ELSE [err |-> "", wpt |-> <<Strip(pm.name), f[2].v, f[1].v, f[3].v>>]

\* ReadPlacemarks inserting each waypoint at the front of the list
RECURSIVE ReadPlacemarksFront(_, _)
ReadPlacemarksFront(pms, acc) ==
    IF pms = <<>> THEN [err |-> "", waypoints |-> acc]
    ELSE IF Head(pms).geom # "Point" THEN ReadPlacemarksFront(Tail(pms), acc)
    ELSE LET r == ReadPoint(Head(pms))
         IN  IF r.err # "" THEN [err |-> r.err, waypoints |-> <<>>]
             ELSE ReadPlacemarksFront(Tail(pms), <<r.wpt>> \o acc)

\* ReadPlacemarks reading every placemark as a point: one without a Point
\* raises where its coordinates are looked up
RECURSIVE ReadPlacemarksNoSkip(_, _)
ReadPlacemarksNoSkip(pms, acc) ==
    IF pms = <<>> THEN [err |-> "", waypoints |-> acc]
    ELSE IF Head(pms).geom # "Point" THEN [err |-> "AttributeError", waypoints |-> <<>>]
    ELSE LET r == ReadPoint(Head(pms))
         IN  IF r.err # "" THEN [err |-> r.err, waypoints |-> <<>>]
             ELSE ReadPlacemarksNoSkip(Tail(pms), Append(acc, r.wpt))

\* the placemark loop, from the waypoints collected so far
RECURSIVE ReadPlacemarks(_, _)
ReadPlacemarks(pms, acc) ==
    IF pms = <<>> THEN [err |-> "", waypoints |-> acc]
    ELSE IF Head(pms).geom # "Point" THEN ReadPlacemarks(Tail(pms), acc)
    ELSE LET r == ReadPoint(Head(pms))
         IN  IF r.err # "" THEN [err |-> r.err, waypoints |-> <<>>]
             ELSE ReadPlacemarks(Tail(pms), Append(acc, r.wpt))

\* parse_kml(kml_path) on a file holding d: (title, waypoints), or the
\* exception raised
parse_kml(path, d) ==
    IF ~d.wellformed THEN [err |-> "ParseError", title |-> NoValue, waypoints |-> <<>>]
    ELSE IF d.docName = NoText
    THEN [err |-> "AttributeError", title |-> NoValue, waypoints |-> <<>>]
    ELSE LET r == ReadPlacemarks(d.placemarks, <<>>)
         IN  IF r.err # "" THEN [err |-> r.err, title |-> NoValue, waypoints |-> <<>>]
             ELSE IF r.waypoints = <<>>
             THEN [err |-> "NoWaypoints", title |-> NoValue, waypoints |-> <<>>]
             ELSE [err |-> "", title |-> TitleOf(path, d), waypoints |-> r.waypoints]

-----------------------------------------------------------------------------
(* build_pln_xml.                                                         *)

\* the number of \s characters of s from index i on
RECURSIVE SpaceRun(_, _)
SpaceRun(s, i) ==
    IF i <= Len(s) /\ IsSpaceChar(s[i]) THEN 1 + SpaceRun(s, i + 1) ELSE 0

\* re.match(r"(\w{4})\s+to\s+(\w{4})", title, re.I): the two groups, or
\* matched = FALSE.  The match starts at the first character; \s+ takes the
\* whole run of white space, since what follows it is not white space.
TitleMatch(t) ==
    LET a == SpaceRun(t, 5)
        j == 5 + a
        b == SpaceRun(t, j + 2)
        k == j + 2 + b
    IN  IF /\ Len(t) >= k + 3
           /\ \A i \in 1 .. 4 : IsWordChar(t[i])
           /\ a >= 1
           /\ UpperChar(t[j]) = "T" /\ UpperChar(t[j + 1]) = "O"
           /\ b >= 1
           /\ \A i \in k .. (k + 3) : IsWordChar(t[i])
        THEN [matched |-> TRUE, g1 |-> SubSeq(t, 1, 4), g2 |-> SubSeq(t, k, k + 3)]
        ELSE [matched |-> FALSE, g1 |-> <<>>, g2 |-> <<>>]

\* RouteIds without .upper()
RouteIdsNoUpper(t, wpts) ==
    LET m == TitleMatch(t)
    IN  IF m.matched THEN <<m.g1, m.g2>>
        ELSE <<wpts[1][1], wpts[Len(wpts)][1]>>

\* dep_id, dest_id
RouteIds(t, wpts) ==
    LET m == TitleMatch(t)
    IN  IF m.matched THEN <<Upper(m.g1), Upper(m.g2)>>
        ELSE <<wpts[1][1], wpts[Len(wpts)][1]>>

\* WpType with the last index off by one
WpTypeOffByOne(idx, n, name) ==
    IF idx = 0 \/ idx = n THEN "Airport"
    ELSE IF Len(name) = 5 /\ IsAlpha(name) THEN "Intersection"
    ELSE "User"

\* wp_type of the waypoint at 0-based index idx in a list of n
WpType(idx, n, name) ==
    IF idx = 0 \/ idx = n - 1 THEN "Airport"
    ELSE IF Len(name) = 5 /\ IsAlpha(name) THEN "Intersection"
    ELSE "User"

\* IcaoIdent cutting every identifier to 4 characters
IcaoIdentCut(wp_type, name) ==
    IF wp_type \in {"Airport", "Intersection"} THEN Prefix(name, 4) ELSE NoElem

\* the text of ICAO/ICAOIdent, NoElem when no ICAO element is made
IcaoIdent(wp_type, name) ==
    IF wp_type \in {"Airport", "Intersection"}
    THEN (IF wp_type = "Airport" THEN Prefix(name, 4) ELSE name)
    ELSE NoElem

\* "<lat dms>,<lon dms>,<alt ft>"
Lla(lat, lon, alt) ==
    dec_to_dms(lat, TRUE) \o <<",">> \o dec_to_dms(lon, FALSE) \o <<",">>
    \o alt_m_to_ft_str(alt)

\* one ATCWaypoint element
AtcWaypoint(idx, n, w) ==
    LET wp_type == WpType(idx, n, w[1])
    IN  [id |-> w[1],
         ATCWaypointType |-> wp_type,
         WorldPosition |-> Lla(w[2], w[3], w[4]),
         ICAOIdent |-> IcaoIdent(wp_type, w[1])]

CreatedBy == <<" ","C","r","e","a","t","e","d"," ","b","y"," ",
               "K","M","L","2","M","S","F","S">>

\* build_pln_xml(title, wpts), wpts not empty
build_pln_xml(t, wpts) ==
    LET ids == RouteIds(t, wpts)
        w0 == wpts[1]
        wN == wpts[Len(wpts)]
    IN  [built |-> TRUE,
         Title |-> t, FPType |-> "IFR", RouteType |-> "Direct",
         CruisingAlt |-> "00000",
         DepartureID |-> ids[1],
         DepartureLLA |-> Lla(w0[2], w0[3], w0[4]),
         DestinationID |-> ids[2],
         DestinationLLA |-> Lla(wN[2], wN[3], wN[4]),
         Descr |-> t \o CreatedBy,
         DepartureName |-> ids[1],
         DestinationName |-> ids[2],
         AppVersionMajor |-> "11", AppVersionBuild |-> "282174",
         ATCWaypoints |-> [i \in 1 .. Len(wpts) |-> AtcWaypoint(i - 1, Len(wpts), wpts[i])]]

-----------------------------------------------------------------------------
(* main: one run, from the prompt to the written file.                    *)

IdleMain ==
    /\ raw_input = <<>> /\ kml_path = <<>> /\ disk = {} /\ doc = NoDoc
    /\ out_file = NoPln /\ title = NoValue /\ waypoints = <<>> /\ pln_root = NoPln
    /\ err = ""

IdleDms == value = 0 /\ is_lat = TRUE /\ dms_out = NoValue
IdleAlt == alt_m = 0 /\ alt_out = NoValue

\* line 118: the path is read and trimmed
ReadInput ==
    /\ pc = "input"
    /\ kml_path' = TrimInput(raw_input)
    /\ pc' = "isfile"
    /\ UNCHANGED <<raw_input, disk, doc, out_file, title, waypoints, pln_root, err,
                   dms_vars, alt_vars>>

\* lines 119-121: not a file, the run reports it and returns
CheckFileMissing ==
    /\ pc = "isfile"
    /\ kml_path \notin disk
    /\ pc' = "notfound"
    /\ UNCHANGED <<main_vars, dms_vars, alt_vars>>

\* line 119: the path is a file
CheckFileFound ==
    /\ pc = "isfile"
    /\ kml_path \in disk
    /\ pc' = "parse"
    /\ UNCHANGED <<main_vars, dms_vars, alt_vars>>

\* ParseKmlRaises in a main that opens the output file before it parses
ParseKmlRaisesAfterOpen ==
    /\ pc = "parse"
    /\ parse_kml(kml_path, doc).err # ""
    /\ err' = parse_kml(kml_path, doc).err
    /\ disk' = disk \cup {OutPath(kml_path)}
    /\ pc' = "raised"
    /\ UNCHANGED <<raw_input, kml_path, doc, out_file, title, waypoints, pln_root,
                   dms_vars, alt_vars>>

\* line 123: parse_kml raises, nothing catches it, the run ends
ParseKmlRaises ==
    /\ pc = "parse"
    /\ parse_kml(kml_path, doc).err # ""
    /\ err' = parse_kml(kml_path, doc).err
    /\ pc' = "raised"
    /\ UNCHANGED <<raw_input, kml_path, disk, doc, out_file, title, waypoints, pln_root,
                   dms_vars, alt_vars>>

\* line 123: parse_kml returns (title, waypoints)
ParseKmlReturns ==
    /\ pc = "parse"
    /\ parse_kml(kml_path, doc).err = ""
    /\ title' = parse_kml(kml_path, doc).title
    /\ waypoints' = parse_kml(kml_path, doc).waypoints
    /\ pc' = "build"
    /\ UNCHANGED <<raw_input, kml_path, disk, doc, out_file, pln_root, err,
                   dms_vars, alt_vars>>

\* line 124: the document tree is built
BuildPln ==
    /\ pc = "build"
    /\ pln_root' = build_pln_xml(title, waypoints)
    /\ pc' = "write"
    /\ UNCHANGED <<raw_input, kml_path, disk, doc, out_file, title, waypoints, err,
                   dms_vars, alt_vars>>

\* lines 125-127: the tree is written to out_path, the run ends
WritePln ==
    /\ pc = "write"
    /\ disk' = disk \cup {OutPath(kml_path)}
    /\ out_file' = pln_root
    /\ pc' = "done"
    /\ UNCHANGED <<raw_input, kml_path, doc, title, waypoints, pln_root, err,
                   dms_vars, alt_vars>>

\* all sequences over S of length at most n
SeqsUpTo(S, n) == UNION { [1 .. k -> S] : k \in 0 .. n }

Str_KLAX == <<"K","L","A","X">>
Str_KJFK == <<"K","J","F","K">>
Str_BRAVO == <<"B","R","A","V","O">>
Str_ALPHA == <<"A","L","P","H","A">>
Str_RW27L == <<"R","W","2","7","L">>
Str_ZULU5 == <<"Z","U","L","U","5">>
Str_Route == <<"K","L","A","X"," ","t","o"," ","K","J","F","K"," ",
               "F","l","i","g","h","t">>
Str_Cruise == <<"E","v","e","n","i","n","g"," ","C","r","u","i","s","e">>

Path1 == <<"d","i","r","/","r","o","u","t","e",".","k","m","l">>
Path2 == <<"a",".","b","/","p","l","a","n">>

RawInputs == { <<" ", "\"">> \o Path1 \o <<"\"", " ">>, <<"'">> \o Path2 \o <<"'">> }

\* a number as a coordinate field, and a field float() rejects
Num(v) == [num |-> TRUE, v |-> v]
NotANumber == [num |-> FALSE, v |-> 0]

\* coordinates lon,lat,alt of three places, in 1/DegScale degree and
\* 1/AltScale metre
CoordsA == <<Num(-118 * DegScale - 408 * (DegScale \div 1000)),
             Num(33 * DegScale + 9425 * (DegScale \div 10000)),
             Num(38 * AltScale + 1)>>
CoordsB == <<Num(-117 * DegScale - 9 * (DegScale \div 10)),
             Num(34 * DegScale + 5 * (DegScale \div 10)),
             Num(150 * AltScale), Num(0)>>
CoordsC == <<Num(-73 * DegScale - 7789 * (DegScale \div 10000)),
             Num(40 * DegScale + 6398 * (DegScale \div 10000)),
             Num(-4 * AltScale)>>

Point(name, coordinates) ==
    [geom |-> "Point", coordinates |-> coordinates, name |-> name]

\* the placemarks a document is made of
Placemarks ==
    { [geom |-> "LineString", coordinates |-> NoElem, name |-> <<"P","a","t","h">>],
      Point(<<" ">> \o Str_KLAX \o <<"\n">>, CoordsA),
      Point(Str_BRAVO, CoordsB),
      Point(Str_KJFK, CoordsC),
      Point(Str_ALPHA, NoElem),
      Point(Str_ALPHA, SubSeq(CoordsA, 1, 2)),
      Point(Str_ALPHA, <<Num(0), NotANumber, Num(0)>>),
      Point(NoElem, CoordsA),
      Point(NoText, CoordsC) }

DocNames == { NoElem, NoText, <<" ">> \o Str_Route \o <<" ">>, Str_Cruise }

Docs ==
    { NoDoc }
    \cup { [wellformed |-> TRUE, docName |-> n, placemarks |-> pms] :
             n \in DocNames, pms \in SeqsUpTo(Placemarks, MaxPlacemarks) }

Init ==
    /\ pc = "input"
    /\ raw_input \in RawInputs
    /\ kml_path = <<>>
    /\ disk \in { {}, {Path1, Path2} }
    /\ doc \in (IF disk = {} THEN {NoDoc} ELSE Docs)
    /\ out_file = NoPln
    /\ title = NoValue /\ waypoints = <<>> /\ pln_root = NoPln /\ err = ""
    /\ IdleDms /\ IdleAlt

Next ==
    \/ ReadInput
    \/ CheckFileMissing
    \/ CheckFileFound
    \/ ParseKmlRaises
    \/ ParseKmlReturns
    \/ BuildPln
    \/ WritePln

Spec == Init /\ [][Next]_vars

-----------------------------------------------------------------------------
(* build_pln_xml on its own: Init draws the title and the waypoint list.   *)

Name_Short == <<"A","B">>
Name_Lower == <<"b","r","a","v","o">>
Name_Six == <<"S","I","X","L","E","T">>

BuildNames ==
    { Str_ALPHA, Str_BRAVO, Str_RW27L, Str_ZULU5,
      Name_Short, Name_Lower, Name_Six, <<>> }

BuildTitles ==
    { Str_Route, Str_Cruise,
      <<"k","l","a","x"," ","\t","T","o","\n","k","j","f","k">>,
      <<"F","l","y"," ">> \o Str_Route,
      <<"K","L","A","X","X"," ","t","o"," ","K","J","F","K">>,
      <<"A","_","1","b"," ","t","o"," ","c","d","2","_","e">>,
      <<"K","L","A","X"," ","t","o"," ","K","J","F">>,
      <<"K","L","A","X","t","o","K","J","F","K">>,
      <<"K","L","-","X"," ","t","o"," ","K","J","F","K">>,
      <<"K","L","A","X"," ","t","o"," ">>,
      <<>> }

\* the waypoint of a name: its place depends on the name only
BuildWpt(name) ==
    <<name, (Len(name) - 2) * DegScale + 5 * (DegScale \div 10),
      -Len(name) * DegScale - 1, (Len(name) - 3) * AltScale>>

InitBuild ==
    /\ pc = "build"
    /\ title \in BuildTitles
    /\ waypoints \in { [i \in DOMAIN ns |-> BuildWpt(ns[i])] :
                         ns \in SeqsUpTo(BuildNames, MaxWpts) \ {<<>>} }
    /\ raw_input = <<>> /\ kml_path = <<>> /\ disk = {} /\ doc = NoDoc
    /\ out_file = NoPln /\ pln_root = NoPln /\ err = ""
    /\ IdleDms /\ IdleAlt

NextBuild == BuildPln
SpecBuild == InitBuild /\ [][NextBuild]_vars

-----------------------------------------------------------------------------
(* The two formatters on their own: Init draws the argument, the action   *)
(* applies the function.                                                  *)

\* fractions of a degree next to 0, next to 1 and spread in between
Fracs ==
    (0 .. FracSpan)
    \cup { DegScale - 1 - j : j \in 0 .. FracSpan }
    \cup { (DegScale \div (FracSpan + 2)) * j + j : j \in 1 .. FracSpan }

LatValues ==
    { sg * (d * DegScale + f) : sg \in {-1, 1}, d \in 0 .. MaxDeg, f \in Fracs }
    \cup { sg * (89 * DegScale + f) : sg \in {-1, 1}, f \in Fracs }
    \cup { -90 * DegScale, 90 * DegScale }

LonValues ==
    LatValues
    \cup { sg * (179 * DegScale + f) : sg \in {-1, 1}, f \in Fracs }
    \cup { -180 * DegScale, 180 * DegScale }

AltValues == (-MaxAlt .. MaxAlt) \cup {-6000, -305, 381, 1000, 6000}

InitDms ==
    /\ pc = "dms"
    /\ is_lat \in BOOLEAN
    /\ value \in (IF is_lat THEN LatValues ELSE LonValues)
    /\ dms_out = NoValue
    /\ IdleMain /\ IdleAlt

DecToDms ==
    /\ pc = "dms"
    /\ dms_out' = dec_to_dms(value, is_lat)
    /\ pc' = "returned"
    /\ UNCHANGED <<value, is_lat, main_vars, alt_vars>>

NextDms == DecToDms
SpecDms == InitDms /\ [][NextDms]_vars

InitAlt ==
    /\ pc = "alt"
    /\ alt_m \in AltValues
    /\ alt_out = NoValue
    /\ IdleMain /\ IdleDms

AltMToFtStr ==
    /\ pc = "alt"
    /\ alt_out' = alt_m_to_ft_str(alt_m)
    /\ pc' = "returned"
    /\ UNCHANGED <<alt_m, main_vars, dms_vars>>

NextAlt == AltMToFtStr
SpecAlt == InitAlt /\ [][NextAlt]_vars

-----------------------------------------------------------------------------
(* Reading the formatted strings back.                                    *)

IndexOf(s, c) == CHOOSE i \in 1 .. Len(s) : s[i] = c /\ \A j \in 1 .. (i - 1) : s[j] # c

AllDigits(s) == Len(s) > 0 /\ \A i \in DOMAIN s : IsDigitChar(s[i])

DigitVal(c) == (CHOOSE i \in DOMAIN DigitSeq : DigitSeq[i] = c) - 1

RECURSIVE ParseNat(_)
ParseNat(s) ==
    IF s = <<>> THEN 0
    ELSE ParseNat(SubSeq(s, 1, Len(s) - 1)) * 10 + DigitVal(s[Len(s)])

\* the fields of a rendered <HEM><deg>deg <min>' <sec>"
DmsHem(s) == s[1]
DmsDeg(s) == SubSeq(s, 2, IndexOf(s, DegreeSign) - 1)
DmsMin(s) == SubSeq(s, IndexOf(s, DegreeSign) + 2, IndexOf(s, "'") - 1)
DmsSec(s) == SubSeq(s, IndexOf(s, "'") + 2, Len(s) - 1)

\* a seconds field DD.DD
IsSecField(f) ==
    /\ "." \in Range(f)
    /\ AllDigits(SubSeq(f, 1, IndexOf(f, ".") - 1))
    /\ AllDigits(SubSeq(f, IndexOf(f, ".") + 1, Len(f)))
    /\ Len(f) - IndexOf(f, ".") = 2

\* a seconds field in hundredths of an arc-second
SecHundredths(f) ==
    ParseNat(SubSeq(f, 1, IndexOf(f, ".") - 1)) * 100
    + ParseNat(SubSeq(f, IndexOf(f, ".") + 1, Len(f)))

DmsWellParsed(s) ==
    /\ DegreeSign \in Range(s) /\ "'" \in Range(s) /\ s[Len(s)] = "\""
    /\ AllDigits(DmsDeg(s)) /\ AllDigits(DmsMin(s)) /\ IsSecField(DmsSec(s))

\* rem / DegScale degrees in hundredths of an arc-second, exactly:
\* rem * 360000 = q * DegScale + r with 0 <= r < DegScale (divided in three
\* stages, 60 * 60 * 100, so that no product leaves the integer range)
ExactHundredths(rem) ==
    LET a1 == rem * 60
        a2 == (a1 % DegScale) * 60
        a3 == (a2 % DegScale) * 100
    IN  [q |-> (a1 \div DegScale) * 6000 + (a2 \div DegScale) * 100 + (a3 \div DegScale),
         r |-> a3 % DegScale]

\* the string + six digits . two digits
PlusSixDotTwo(s) ==
    /\ Len(s) = 10 /\ s[1] = "+" /\ s[8] = "."
    /\ AllDigits(SubSeq(s, 2, 7)) /\ AllDigits(SubSeq(s, 9, 10))

\* the integer written between the leading + and the final .00
FeetWritten(s) ==
    LET body == SubSeq(s, 2, Len(s) - 3)
    IN  IF body[1] = "-" THEN -ParseNat(Tail(body)) ELSE ParseNat(body)

-----------------------------------------------------------------------------
(* Properties.                                                            *)

\* C6 as stated: for every altitude, negative ones included, the string of
\* alt_m_to_ft_str is exactly 11 characters long and has the shape
\* +DDDDDD.DD.
C6_ElevenChars ==
    alt_out # NoValue => Len(alt_out) = 11 /\ PlusSixDotTwo(alt_out)

\* C6 amended: the string is "+", the integer ft, ".00", where ft is
\* alt_m * 3.28084 rounded to the nearest integer; it is 10 characters long;
\* for ft >= 0 it has the shape +DDDDDD.00, and for ft < 0 it is
\* +-DDDDD.00: the minus sign follows the + and takes a digit's place.
C6_AltFormat ==
    alt_out # NoValue =>
        LET ft == FeetWritten(alt_out)
            n == Len(alt_out)
        IN  /\ n = 10
            /\ alt_out[1] = "+"
            /\ SubSeq(alt_out, n - 2, n) = <<".", "0", "0">>
            /\ 2 * Abs(ft * FtDen * AltScale - alt_m * FtNum) <= FtDen * AltScale
            /\ (alt_m >= 0 => ft >= 0)
            /\ (ft >= 0 => PlusSixDotTwo(alt_out))
            /\ (ft < 0 => alt_out[2] = "-" /\ AllDigits(SubSeq(alt_out, 3, 7)))

\* C6 witness: a negative altitude has been formatted, with a negative ft.
C6_NegativeFormatted ==
    alt_out # NoValue /\ alt_m < 0 /\ FeetWritten(alt_out) < 0

\* C7: the hemisphere letter of dec_to_dms is S / W exactly when the value is
\* negative (N / E otherwise, by axis), and degrees + minutes/60 +
\* seconds/3600 read back from the string is within 1/360000 degree of the
\* absolute value.
C7_DmsRoundTrip ==
    dms_out # NoValue =>
        LET a == Abs(value)
            dv == a \div DegScale
            ex == ExactHundredths(a - dv * DegScale)
            t == (ParseNat(DmsDeg(dms_out)) - dv) * 360000
                 + ParseNat(DmsMin(dms_out)) * 6000
                 + SecHundredths(DmsSec(dms_out))
        IN  /\ DmsWellParsed(dms_out)
            /\ DmsHem(dms_out) \in (IF is_lat THEN {"N", "S"} ELSE {"E", "W"})
            /\ (DmsHem(dms_out) \in {"S", "W"}) <=> (value < 0)
            \* | a * 360000 - read back * DegScale | <= DegScale
            /\ \/ t = ex.q
               \/ t = ex.q + 1
               \/ t = ex.q - 1 /\ ex.r = 0

\* C7 witness: a negative value whose seconds are rounded up has been
\* rendered.
C7_NegativeRounded ==
    /\ dms_out # NoValue /\ value < 0
    /\ LET a == Abs(value)
           ex == ExactHundredths(a - (a \div DegScale) * DegScale)
       IN  2 * ex.r > DegScale

\* C10: the rendered minutes are an integer in 0..59, the rendered seconds
\* are below 60.00 and take exactly 5 characters.
C10_WellFormedDms ==
    dms_out # NoValue =>
        /\ DmsWellParsed(dms_out)
        /\ ParseNat(DmsMin(dms_out)) \in 0 .. 59
        /\ SecHundredths(DmsSec(dms_out)) < 6000
        /\ Len(DmsSec(dms_out)) = 5

\* the point placemarks of a document, in document order
PointPlacemarks(d) == SelectSeq(d.placemarks, LAMBDA pm : pm.geom = "Point")

\* a point placemark with a name and three numeric coordinate fields
ValidPoint(pm) ==
    /\ pm.geom = "Point"
    /\ pm.name \notin {NoElem, NoText}
    /\ pm.coordinates \notin {NoElem, NoText}
    /\ Len(pm.coordinates) >= 3
    /\ \A i \in 1 .. 3 : pm.coordinates[i].num

\* parse_kml has been called and has returned or raised
ParseEnded == pc \in {"raised", "build", "write", "done"}
ParseReturned == pc \in {"build", "write", "done"}

\* t is s without the white space at its two ends
IsStripOf(t, s) ==
    /\ t = <<>> \/ (~IsSpaceChar(t[1]) /\ ~IsSpaceChar(t[Len(t)]))
    /\ \E i \in 0 .. Len(s) :
          /\ i + Len(t) <= Len(s)
          /\ SubSeq(s, i + 1, i + Len(t)) = t
          /\ \A k \in (1 .. i) \cup ((i + Len(t) + 1) .. Len(s)) : IsSpaceChar(s[k])

\* t is what follows the last "/" of p (all of p if it has none)
IsBaseNameOf(t, p) ==
    /\ "/" \notin Range(t)
    /\ Len(t) <= Len(p)
    /\ SubSeq(p, Len(p) - Len(t) + 1, Len(p)) = t
    /\ Len(t) = Len(p) \/ p[Len(p) - Len(t)] = "/"

\* t is s cut at the last "." (the base name without extension)
IsWithoutExtension(t, s) ==
    IF "." \in Range(s) THEN t \o SubSeq(s, Len(t) + 1, Len(s)) = s
                              /\ Len(t) < Len(s) /\ s[Len(t) + 1] = "."
                              /\ "." \notin Range(SubSeq(s, Len(t) + 2, Len(s)))
    ELSE t = s

\* C1: no output file exists when the run has ended at the file check or in
\* an exception of parse_kml, and an output file exists only once parse_kml
\* and build_pln_xml have both returned: it then holds the tree built.
C1_OutputOnlyAfterBuild ==
    /\ pc \in {"notfound", "raised"} =>
          OutPath(kml_path) \notin disk /\ out_file = NoPln
    /\ (OutPath(kml_path) \in disk \/ out_file # NoPln) =>
          /\ pc = "done" /\ err = ""
          /\ title # NoValue /\ waypoints # <<>>
          /\ pln_root # NoPln /\ out_file = pln_root
    /\ pc = "notfound" => title = NoValue /\ pln_root = NoPln

\* C1 witness: the run has ended in the no-waypoints error of a document
\* that holds placemarks.
C1_FatalEnd ==
    pc = "raised" /\ err = "NoWaypoints" /\ doc.placemarks # <<>>

\* C2 as stated: on a document, parse_kml fails with the no-waypoints error
\* exactly when the document has no placemark with a Point.
C2_NoWaypointsIffNoPoint ==
    (ParseEnded /\ doc.wellformed) =>
        ((err = "NoWaypoints") <=> (PointPlacemarks(doc) = <<>>))

\* C2 amended: parse_kml fails with the no-waypoints error exactly when the
\* document has no placemark with a Point and its document-level name, if
\* there is one, has text (an empty name element fails before, with an
\* AttributeError); placemarks without a Point raise nothing: with at least
\* one point placemark, all of them valid, and a title that can be read,
\* parse_kml returns a non-empty list.
C2_NoWaypoints ==
    (ParseEnded /\ doc.wellformed) =>
        /\ (err = "NoWaypoints") <=>
              (PointPlacemarks(doc) = <<>> /\ doc.docName # NoText)
        /\ (PointPlacemarks(doc) = <<>> /\ doc.docName = NoText) =>
              err = "AttributeError"
        /\ ( /\ doc.docName # NoText
             /\ PointPlacemarks(doc) # <<>>
             /\ \A i \in DOMAIN doc.placemarks :
                   doc.placemarks[i].geom = "Point" => ValidPoint(doc.placemarks[i]) )
           => (ParseReturned /\ err = "" /\ waypoints # <<>>)

\* C2 witness: parse_kml has returned waypoints from a document that also
\* holds a placemark without a Point.
C2_LineSkipped ==
    /\ ParseReturned /\ waypoints # <<>>
    /\ \E i \in DOMAIN doc.placemarks : doc.placemarks[i].geom # "Point"

\* C8 as stated: the title returned is the stripped text of the
\* document-level name if there is one, and otherwise the base name of the
\* input path without its extension.
C8_TitleWithoutExtension ==
    ParseReturned =>
        IF doc.docName # NoElem THEN IsStripOf(title, doc.docName)
        ELSE \E i \in 1 .. (Len(kml_path) + 1) :
                LET b == SubSeq(kml_path, i, Len(kml_path))
                IN  IsBaseNameOf(b, kml_path) /\ IsWithoutExtension(title, b)

\* C8 amended: the title returned is the stripped text of the document-level
\* name if there is one, and otherwise the base name of the input path, its
\* extension included (dir/route.kml gives route.kml); a document-level name
\* element without text makes parse_kml raise an AttributeError.
C8_Title ==
    /\ ParseReturned =>
          /\ doc.docName # NoText
          /\ IF doc.docName # NoElem THEN IsStripOf(title, doc.docName)
             ELSE IsBaseNameOf(title, kml_path)
    /\ (ParseEnded /\ doc.wellformed /\ doc.docName = NoText) =>
          (pc = "raised" /\ err = "AttributeError")
    /\ (ParseReturned /\ doc.docName = NoElem /\ kml_path = Path1) =>
          title = <<"r","o","u","t","e",".","k","m","l">>

\* C8 witness: parse_kml has returned the title of a document without a
\* document-level name, read from a path with an extension.
C8_FallbackTitle ==
    ParseReturned /\ doc.docName = NoElem /\ kml_path = Path1

\* C9: the waypoints returned are the point placemarks in document order,
\* none dropped, reordered or merged; the tree has one ATCWaypoint per
\* waypoint, in order, its id the waypoint's name; DepartureLLA and
\* DestinationLLA are those of the first and the last waypoint.
C9_OrderPreserved ==
    /\ ParseReturned =>
          LET pts == PointPlacemarks(doc)
          IN  /\ Len(waypoints) = Len(pts)
              /\ \A i \in DOMAIN pts :
                    /\ IsStripOf(waypoints[i][1], pts[i].name)
                    /\ waypoints[i][2] = pts[i].coordinates[2].v
                    /\ waypoints[i][3] = pts[i].coordinates[1].v
                    /\ waypoints[i][4] = pts[i].coordinates[3].v
    /\ pln_root # NoPln =>
          /\ Len(pln_root.ATCWaypoints) = Len(waypoints)
          /\ \A i \in DOMAIN waypoints :
                /\ pln_root.ATCWaypoints[i].id = waypoints[i][1]
                /\ pln_root.ATCWaypoints[i].WorldPosition
                     = Lla(waypoints[i][2], waypoints[i][3], waypoints[i][4])
          /\ pln_root.DepartureLLA = pln_root.ATCWaypoints[1].WorldPosition
          /\ pln_root.DestinationLLA = pln_root.ATCWaypoints[Len(waypoints)].WorldPosition

\* C9 witness: a tree has been built from three waypoints, the first and the
\* third the same placemark twice, the second another.
C9_DuplicateKept ==
    /\ pln_root # NoPln /\ Len(waypoints) = 3
    /\ waypoints[1] = waypoints[3] /\ waypoints[2] # waypoints[1]

\* the title starts with 4 word characters, a white space, "to" in either
\* case, b white space and 4 word characters
RoutePattern(t, a, b) ==
    /\ Len(t) >= a + b + 10
    /\ \A i \in (1 .. 4) \cup ((a + b + 7) .. (a + b + 10)) : IsWordChar(t[i])
    /\ \A i \in (5 .. (a + 4)) \cup ((a + 7) .. (a + b + 6)) : IsSpaceChar(t[i])
    /\ t[a + 5] \in {"t", "T"} /\ t[a + 6] \in {"o", "O"}

\* C3: the first and the last waypoint are Airport whatever their names; any
\* other is Intersection if its name is 5 letters, User otherwise.
C3_Classification ==
    pln_root # NoPln =>
        LET n == Len(waypoints)
        IN  /\ Len(pln_root.ATCWaypoints) = n
            /\ \A i \in 1 .. n :
                  LET nm == waypoints[i][1]
                      tp == pln_root.ATCWaypoints[i].ATCWaypointType
                  IN  /\ (i = 1 \/ i = n) => tp = "Airport"
                      /\ (1 < i /\ i < n) =>
                            IF Len(nm) = 5 /\ \A k \in 1 .. 5 : IsAlphaChar(nm[k])
                            THEN tp = "Intersection" ELSE tp = "User"
                      /\ (1 < i /\ i < n /\ nm = Str_BRAVO) => tp = "Intersection"
                      /\ (1 < i /\ i < n /\ nm = Str_RW27L) => tp = "User"

\* C3 witness: a tree of three waypoints has been built whose middle one,
\* BRAVO, is an Intersection, and whose last one has a 5-letter name.
C3_MiddleBravo ==
    /\ pln_root # NoPln /\ Len(waypoints) = 3
    /\ waypoints[2][1] = Str_BRAVO /\ waypoints[3][1] = Str_ALPHA
    /\ pln_root.ATCWaypoints[2].ATCWaypointType = "Intersection"

C5_IcaoIdent ==
    pln_root # NoPln =>
        \A i \in DOMAIN pln_root.ATCWaypoints :
            LET nd == pln_root.ATCWaypoints[i]
                nm == waypoints[i][1]
            IN  /\ (nd.ICAOIdent # NoElem) <=>
                      (nd.ATCWaypointType \in {"Airport", "Intersection"})
                /\ nd.ATCWaypointType = "User" => nd.ICAOIdent = NoElem
                /\ nd.ATCWaypointType = "Airport" =>
                      /\ Len(nd.ICAOIdent) = (IF Len(nm) < 4 THEN Len(nm) ELSE 4)
                      /\ \A k \in DOMAIN nd.ICAOIdent : nd.ICAOIdent[k] = nm[k]
                /\ nd.ATCWaypointType = "Intersection" => nd.ICAOIdent = nm

\* C5 witness: a tree has been built whose first node is an Airport with a
\* name longer than 4 characters and whose middle node is a User node.
C5_AirportCutAndUser ==
    /\ pln_root # NoPln /\ Len(waypoints) = 3
    /\ Len(waypoints[1][1]) > 4
    /\ Len(pln_root.ATCWaypoints[1].ICAOIdent) = 4
    /\ pln_root.ATCWaypoints[2].ATCWaypointType = "User"

=============================================================================
